---- MODULE Spec2Model ----
(***************************************************************************)
(* Model of src/bot.js: SecurityManager.validateRequest, the Redis-backed  *)
(* rate limiter and the executeTrade pipeline of SecureTradingBot, the     *)
(* SecureWallet.sendTransaction tail, the SecurityManager singleton and    *)
(* the start/stop flag.  The periodic control loop and the withdrawal of   *)
(* the accumulated profit are not part of src/bot.js; CycleBegin and       *)
(* CycleEnd follow section 4.5 of the specification, withdraw,             *)
(* CreditProfit and TransferDone its section 4.6.                          *)
(*                                                                         *)
(* executeTrade is an async function: it runs atomically between two       *)
(* awaits.  A call is created by ExecuteTrade (lines 151-156, up to the    *)
(* first await) and is resumed at its await point by Resume.  Between two  *)
(* resumptions other calls, the Redis key expiry (Tick) and start()/stop() *)
(* may run.                                                                *)
(*                                                                         *)
(* Numbers: prices are integers; 0.003, 0.02 are kept as per-mille and the *)
(* profit percentage as an exact fraction num/den, with the IEEE-754       *)
(* results of a division by zero (NaN, +Infinity, -Infinity) kept as       *)
(* den = 0.  Floating-point rounding is not modelled.  The Redis commands  *)
(* of the rate limiter (incr, expire) always answer; the RPC calls of the  *)
(* wallet and the redis.set of the marker may fail.  The price lookups are *)
(* stubs answering 0 in the source; the model lets them answer any quote   *)
(* of a small set that holds 0, and SpecRate and SpecControl keep to 0.    *)
(***************************************************************************)
EXTENDS Integers, Sequences, FiniteSets, TLC

\* ------------------------------------------------------------------ bounds
MaxCalls        == 2    \* executeTrade calls in Spec
MaxRateCalls    == 7    \* executeTrade calls in SpecRate
MaxLimitCalls   == 6    \* executeTrade calls in SpecLimit
MaxControlCalls == 2    \* executeTrade calls in SpecControl
MaxInFlight     == 2    \* calls suspended at an await at the same time
MaxLimitInFlight == 1   \* the same, in SpecLimit
MaxFaults       == 1    \* fields of a request of Spec that differ from a valid one
TickStep        == 30   \* seconds the clock advances in one Tick
MaxTime         == 30   \* the clock of Spec and SpecControl stops here
MaxRateTime     == 90   \* the clock of SpecRate stops here
MaxSubmitCalls  == 2    \* executeTrade calls in SpecSubmit
MaxSingletonCalls == 2  \* executeTrade calls in SpecSingleton
MaxProfit       == 2    \* accumulatedProfit stops growing here
MaxTransfers    == 1    \* withdrawal transfers in flight at the same time

\* ------------------------------------------------------- program constants
RATE_LIMIT_MAX      == 5     \* count > 5
RATE_WINDOW_SECONDS == 60    \* redis.expire(key, 60)
TX_MARKER_TTL       == 300   \* 'EX', 300
minProfitPercentage == 5
maxSlippagePerMille == 20    \* 0.02
dexFeePerMille      == 3     \* 0.003

\* WHITELISTED_TOKENS
WHITELISTED_TOKENS ==
    { "So11111111111111111111111111111111111111112",
      "Es9vMFrzaCERJJjPRDq6HPucjM7rFt1FQz2eGDvV2wrf",
      "EPjFWdd5AufqSSqeM2qN1xzybapC8G4wEGGkZwyTDt1v" }

\* ------------------------------------------------------------ input values
Secret   == "api-key-1"     \* config.apiKey given to the constructor
WrongKey == "api-key-x"
Null     == "<null>"        \* a field that is null or undefined
Empty    == ""              \* the empty string
SOL      == "So11111111111111111111111111111111111111112"
Unlisted == "Fake1111111111111111111111111111111111111111"
Ip1      == "10.0.0.1"
Ip2      == "10.0.0.2"
NoInstance == "<no instance>"   \* SecurityManager.instance is undefined
NoExpiry == 0 - 1           \* a Redis key without a TTL

\* A request that passes every check of lines 151-161.
ValidRequest ==
    [apiKey |-> Secret, ipAddress |-> Ip1, tokenMint |-> SOL, roi |-> 5, dex |-> "raydium"]

Faults(r) ==
    Cardinality({f \in {"apiKey", "ipAddress", "tokenMint", "dex"} : r[f] # ValidRequest[f]})
      + (IF r.roi # ValidRequest.roi THEN 1 ELSE 0)

\* Requests of Spec: every validation step can fail.
Requests ==
    { r \in [ apiKey    : {Secret, WrongKey},
              ipAddress : {Ip1, Empty},
              tokenMint : {SOL, Unlisted, Empty},
              roi       : {4, 5},
              dex       : {"raydium", Null} ] : Faults(r) <= MaxFaults }

\* Requests of SpecRate: the valid request, again and again.
RateRequests == {ValidRequest}

\* Requests of SpecLimit: one source, one request per validation step.
LimitRequests ==
    { ValidRequest,
      [ValidRequest EXCEPT !.apiKey = WrongKey],
      [ValidRequest EXCEPT !.tokenMint = Unlisted],
      [ValidRequest EXCEPT !.tokenMint = Unlisted, !.roi = 4],
      [ValidRequest EXCEPT !.roi = 4] }

\* Requests of SpecSingleton: the valid request under either key, of either
\* of two sources.
ApiKeys == {Secret, WrongKey}
SingletonRequests ==
    { [ValidRequest EXCEPT !.apiKey = k, !.ipAddress = ip] : k \in ApiKeys, ip \in {Ip1, Ip2} }

\* Requests of SpecControl: the valid request and one with a wrong key.
ControlRequests == { ValidRequest, [ValidRequest EXCEPT !.apiKey = WrongKey] }

\* Quote pairs <<buy, sell>> the DEX price lookups may answer; the stubs of
\* lines 194-202 answer 0 for both.
Quotes     == {0, 100} \X {0, 104, 108}
StubQuotes == {<<0, 0>>}
LimitQuotes == {<<100, 104>>}
SubmitQuotes == {<<100, 108>>}

IpKeys == {r.ipAddress : r \in Requests \cup RateRequests \cup LimitRequests
                                 \cup ControlRequests \cup SingletonRequests}

VARIABLES
    now,          \* the clock, in seconds
    counter,      \* Redis: value of key trade:<ip>, 0 when the key does not exist
    counterExp,   \* Redis: absolute expiry time of key trade:<ip>, or NoExpiry
    txStore,      \* Redis: the tx:<signature> records, each with its expiry time
    walletCalls,  \* calls for which wallet.sendTransaction was called
    chainSent,    \* calls whose transaction was handed to sendAndConfirmTransaction
    calls,        \* the executeTrade calls made so far, in order of arrival
    isRunning,    \* SecureTradingBot.isRunning
    cycle,        \* control loop: "idle" or "inflight"
    lastControl,  \* history: the last of start()/stop() that was called
    stopMark,     \* history: what happened to a cycle that was in flight at stop()
    lastOp,       \* history: the last of start()/stop()/withdraw() and the state it met
    securityApiKey, \* SecurityManager.instance.apiKey, NoInstance before the first getInstance
    constructed,  \* a SecureTradingBot has been constructed
    firstKey,     \* history: the apiKey of the first getInstance call
    keysAsked,    \* history: the apiKeys getInstance was called with
    accumulatedProfit, \* SessionState.accumulatedProfit
    transfers     \* withdrawal transfers in flight, their amounts

tradeVars    == << now, counter, counterExp, txStore, walletCalls, chainSent, calls >>
controlVars  == << isRunning, cycle, lastControl, stopMark, lastOp >>
securityVars == << securityApiKey, constructed, firstKey, keysAsked >>
sessionVars  == << accumulatedProfit, transfers >>

vars == << tradeVars, controlVars, securityVars, sessionVars >>

\* =================================================================== helpers
\* SecurityManager.validateRequest: the credential matches and every value of
\* the request is != null (roi is a number in every request of the model).
validateRequest(request) ==
    /\ request.apiKey = securityApiKey
    /\ \A val \in {request.apiKey, request.ipAddress, request.tokenMint, request.dex} :
          val # Null

\* Faulty variant: the whitelist check lets every token through.
IsWhitelisted_AnyToken(tokenMint) == TRUE

\* WHITELISTED_TOKENS.includes(tradeData.tokenMint)
IsWhitelisted(tokenMint) == tokenMint \in WHITELISTED_TOKENS

\* Faulty variant: the limit is off by one, a 6th request passes.
RateLimited_OffByOne(count) == count > RATE_LIMIT_MAX + 1

\* Faulty variant: one counter for every source.
key_Shared(tradeData) == Ip1

\* const key = `trade:${tradeData.ipAddress}`
key(tradeData) == tradeData.ipAddress

\* count > 5
RateLimited(count) == count > RATE_LIMIT_MAX

\* tradeData.roi < this.minProfitPercentage
RoiBelowThreshold(roi) == roi < minProfitPercentage

\* calculateProfit, in per-mille of a price unit:
\*   totalFees = buy * 0.003 * 2, slippageCost = buy * maxSlippage,
\*   estimatedProfit = sell - buy - totalFees - slippageCost,
\*   result = (estimatedProfit / buy) * 100, kept as the fraction num/den:
\*   (estimatedProfit per-mille / 1000 / buy) * 100 = estimatedProfit per-mille / (buy * 10).
\* Faulty variant: the DEX fee is charged one way only.
totalFees_OneWay(estimatedBuyPrice) == estimatedBuyPrice * dexFeePerMille

totalFees(estimatedBuyPrice) == estimatedBuyPrice * dexFeePerMille * 2

slippageCost(estimatedBuyPrice) == estimatedBuyPrice * maxSlippagePerMille

calculateProfit(estimatedBuyPrice, estimatedSellPrice) ==
    LET estimatedProfit == estimatedSellPrice * 1000 - estimatedBuyPrice * 1000
                             - totalFees(estimatedBuyPrice)
                             - slippageCost(estimatedBuyPrice)
    IN  [num |-> estimatedProfit, den |-> estimatedBuyPrice * 10]

\* JavaScript's p < k for the number num/den: NaN (0/0) and +Infinity compare
\* false, -Infinity compares true.
LessThan(p, k) ==
    IF p.den > 0 THEN p.num < k * p.den
    ELSE IF p.den < 0 THEN p.num > k * p.den
    ELSE p.num < 0

\* estimatedProfit < this.minProfitPercentage
NotProfitable(p) == LessThan(p, minProfitPercentage)

\* new Transaction(): no instruction is ever added to it.
NewTransaction == [instructions |-> 0]

\* The transactions executeTrade builds (line 163).
Transactions == {NewTransaction}

\* The transactions of SpecSubmit: the one of line 163, and one that carries an
\* instruction, which verifyTransactionSafety lets through to lines 172-175 and
\* to SecureWallet.sendTransaction.
BuiltTransactions == {NewTransaction, [instructions |-> 1]}

\* Faulty variant: only !tx is checked, the instruction count is not.
verifyTransactionSafety_NoLengthCheck(tx) == TRUE

\* verifyTransactionSafety returns normally (does not throw).
verifyTransactionSafety(tx) == ~(tx.instructions = 0)

\* Faulty variant: every getInstance call builds a new SecurityManager.
getInstanceKey_Replaces(instance, apiKey) == apiKey

\* getInstance, lines 28-31: the apiKey of the instance the call answers, given
\* the apiKey of SecurityManager.instance (NoInstance when there is none).
getInstanceKey(instance, apiKey) == IF instance = NoInstance THEN apiKey ELSE instance

\* Section 4.6, faulty variant: withdraw does not look at the balance.
NoFunds_NeverChecked(balance) == FALSE

\* Section 4.6: withdraw fails with NoFunds if accumulatedProfit <= 0.
NoFunds(balance) == balance <= 0

\* Signing operations of SecureWallet.sendTransaction: tx.sign(keypair), and
\* sendAndConfirmTransaction signs again with the signers it is given.
SignaturesBySendTransaction == 2

\* ===================================================================== state
NoProfit == [num |-> 0, den |-> 1]

NewCall(request, count, pc, result) ==
    [ req |-> request, arrived |-> now, pc |-> pc, count |-> count,
      instr |-> 0 - 1, quoted |-> FALSE, buy |-> 0, sell |-> 0,
      profit |-> NoProfit, result |-> result, signs |-> 0,
      running |-> isRunning ]

InFlight == {i \in 1..Len(calls) : calls[i].pc # "done"}

\* The amount of the withdrawal transfers in flight.
RECURSIVE InTransfer(_)
InTransfer(ts) == IF ts = << >> THEN 0 ELSE Head(ts) + InTransfer(Tail(ts))

\* No control operation has been called yet.
NoOp == [name |-> "none", seq |-> 0, wasRunning |-> FALSE, balance |-> 0, result |-> ""]

\* The record of a control operation: its name, the state it met, its answer.
Op(name, result) ==
    [name |-> name, seq |-> 1 - lastOp.seq, wasRunning |-> isRunning,
     balance |-> accumulatedProfit, result |-> result]

Init ==
    /\ now = 0
    /\ counter = [ip \in IpKeys |-> 0]
    /\ counterExp = [ip \in IpKeys |-> NoExpiry]
    /\ txStore = {}
    /\ walletCalls = {}
    /\ chainSent = {}
    /\ calls = << >>
    /\ isRunning = FALSE
    /\ cycle = "idle"
    /\ lastControl = "none"
    /\ stopMark = "none"
    /\ lastOp = NoOp
    /\ securityApiKey = Secret
    /\ constructed = TRUE
    /\ firstKey = Secret
    /\ keysAsked = {Secret}
    /\ accumulatedProfit = 0
    /\ transfers = << >>

\* ================================================================== actions
\* Faulty variant: executeTrade refuses every request while the bot is stopped.
ExecuteTrade_RequiresRunning(request, maxCalls, maxInFlight) ==
    /\ constructed
    /\ Len(calls) < maxCalls
    /\ Cardinality(InFlight) < maxInFlight
    /\ IF ~isRunning
       THEN /\ calls' = Append(calls, NewCall(request, 0, "done", "Bot is not running"))
            /\ UNCHANGED counter
       ELSE IF ~validateRequest(request)
       THEN /\ calls' = Append(calls, NewCall(request, 0, "done", "Invalid trade request"))
            /\ UNCHANGED counter
       ELSE /\ counter' = [counter EXCEPT ![key(request)] = @ + 1]
            /\ calls' = Append(calls,
                   NewCall(request, counter[key(request)] + 1, "incr", ""))
    /\ UNCHANGED << now, counterExp, txStore, walletCalls, chainSent >>
    /\ UNCHANGED << controlVars, securityVars, sessionVars >>

\* executeTrade(tradeData) is called: lines 151-156, up to the first await.
\* redis.incr creates a missing key with value 1 and no TTL and keeps the TTL
\* of an existing key.
ExecuteTrade(request, maxCalls, maxInFlight) ==
    /\ constructed
    /\ Len(calls) < maxCalls
    /\ Cardinality(InFlight) < maxInFlight
    /\ IF ~validateRequest(request)
       THEN /\ calls' = Append(calls, NewCall(request, 0, "done", "Invalid trade request"))
            /\ UNCHANGED counter
       ELSE /\ counter' = [counter EXCEPT ![key(request)] = @ + 1]
            /\ calls' = Append(calls,
                   NewCall(request, counter[key(request)] + 1, "incr", ""))
    /\ UNCHANGED << now, counterExp, txStore, walletCalls, chainSent >>
    /\ UNCHANGED << controlVars, securityVars, sessionVars >>

\* throw new Error(reason)
Throw(i, reason) ==
    calls' = [calls EXCEPT ![i].pc = "done", ![i].result = reason]

\* return value (line 175)
Return(i, value) ==
    calls' = [calls EXCEPT ![i].pc = "done", ![i].result = value]

\* line 157: redis.expire(key, 60) sets the TTL of an existing key and does
\* nothing when the key does not exist.
Expire(i) ==
    LET ip == key(calls[i].req) IN
    /\ counterExp' = IF counter[ip] > 0
                     THEN [counterExp EXCEPT ![ip] = now + RATE_WINDOW_SECONDS]
                     ELSE counterExp
    /\ calls' = [calls EXCEPT ![i].pc = "expire"]
    /\ UNCHANGED << now, counter, txStore, walletCalls, chainSent >>

\* lines 159-172: the checks, the quotes, the profit estimate, the safety
\* check and the call of wallet.sendTransaction up to its first await (line 82).
Evaluate(i, quotes, txs) ==
    LET c == calls[i] IN
    /\ IF RateLimited(c.count)
       THEN /\ Throw(i, "Rate limit exceeded")
            /\ UNCHANGED walletCalls
       ELSE IF ~IsWhitelisted(c.req.tokenMint)
       THEN /\ Throw(i, "Unapproved token")
            /\ UNCHANGED walletCalls
       ELSE IF RoiBelowThreshold(c.req.roi)
       THEN /\ Throw(i, "Trade ROI below threshold")
            /\ UNCHANGED walletCalls
       ELSE \E quote \in quotes, tx \in txs :
              LET buy == quote[1]
                  sell == quote[2]
                  estimatedProfit == calculateProfit(buy, sell)
                  q == [c EXCEPT !.instr = tx.instructions, !.quoted = TRUE,
                                 !.buy = buy, !.sell = sell,
                                 !.profit = estimatedProfit]
              IN  IF NotProfitable(estimatedProfit)
                  THEN /\ calls' = [calls EXCEPT ![i] =
                              [q EXCEPT !.pc = "done",
                                        !.result = "Trade not profitable enough"]]
                       /\ UNCHANGED walletCalls
                  ELSE IF ~verifyTransactionSafety(tx)
                  THEN /\ calls' = [calls EXCEPT ![i] =
                              [q EXCEPT !.pc = "done", !.result = "Unsafe transaction"]]
                       /\ UNCHANGED walletCalls
                  ELSE /\ calls' = [calls EXCEPT ![i] = [q EXCEPT !.pc = "blockhash"]]
                       /\ walletCalls' = walletCalls \cup {i}
    /\ UNCHANGED << now, counter, counterExp, txStore, chainSent >>

\* lines 82-84: the blockhash arrives (or the RPC fails); the transaction is
\* signed and handed to sendAndConfirmTransaction.
SignAndSend(i) ==
    /\ \E ok \in BOOLEAN :
         IF ok
         THEN /\ calls' = [calls EXCEPT ![i].pc = "confirm",
                                        ![i].signs = SignaturesBySendTransaction]
              /\ chainSent' = chainSent \cup {i}
         ELSE /\ Throw(i, "Failed to send transaction")
              /\ UNCHANGED chainSent
    /\ UNCHANGED << now, counter, counterExp, txStore, walletCalls >>

\* lines 84-87 and 172: sendAndConfirmTransaction answers the signature or fails.
Confirmed(i) ==
    /\ \E ok \in BOOLEAN :
         IF ok THEN calls' = [calls EXCEPT ![i].pc = "marker"]
               ELSE Throw(i, "Failed to send transaction")
    /\ UNCHANGED << now, counter, counterExp, txStore, walletCalls, chainSent >>

\* lines 173-175: redis.set('tx:' + signature, 'pending', 'EX', 300), then the
\* signature is returned; a rejected command leaves no record.
SetMarker(i) ==
    /\ \E ok \in BOOLEAN :
         IF ok
         THEN /\ txStore' = txStore \cup
                     {[sig |-> i, status |-> "pending", exp |-> now + TX_MARKER_TTL]}
              /\ Return(i, "Submitted")
         ELSE /\ Throw(i, "Store error")
              /\ UNCHANGED txStore
    /\ UNCHANGED << now, counter, counterExp, walletCalls, chainSent >>

\* The event loop resumes call i at the await it is suspended at.
Resume(i, quotes, txs) ==
    /\ i \in InFlight
    /\ CASE calls[i].pc = "incr"      -> Expire(i)
         [] calls[i].pc = "expire"    -> Evaluate(i, quotes, txs)
         [] calls[i].pc = "blockhash" -> SignAndSend(i)
         [] calls[i].pc = "confirm"   -> Confirmed(i)
         [] OTHER                     -> SetMarker(i)
    /\ UNCHANGED << controlVars, securityVars, sessionVars >>

\* Time passes; Redis drops the keys whose TTL has run out.
Tick(maxTime) ==
    /\ now + TickStep <= maxTime
    /\ now' = now + TickStep
    /\ LET gone(ip) == counterExp[ip] # NoExpiry /\ counterExp[ip] <= now' IN
       /\ counter' = [ip \in IpKeys |-> IF gone(ip) THEN 0 ELSE counter[ip]]
       /\ counterExp' = [ip \in IpKeys |-> IF gone(ip) THEN NoExpiry ELSE counterExp[ip]]
    /\ txStore' = {m \in txStore : m.exp > now'}
    /\ UNCHANGED << walletCalls, chainSent, calls >>
    /\ UNCHANGED << controlVars, securityVars, sessionVars >>

\* Faulty variant: start() flips the flag.
start_Toggles ==
    /\ isRunning' = ~isRunning
    /\ lastControl' = "start"
    /\ stopMark' = "none"
    /\ lastOp' = Op("start", "")
    /\ UNCHANGED cycle
    /\ UNCHANGED << tradeVars, securityVars, sessionVars >>

\* start(): this.isRunning = true
start ==
    /\ isRunning' = TRUE
    /\ lastControl' = "start"
    /\ stopMark' = "none"
    /\ lastOp' = Op("start", "")
    /\ UNCHANGED cycle
    /\ UNCHANGED << tradeVars, securityVars, sessionVars >>

\* Faulty variant: stop() leaves the flag as it is.
stop_KeepsRunning ==
    /\ UNCHANGED isRunning
    /\ lastControl' = "stop"
    /\ stopMark' = IF cycle = "inflight" THEN "inflight-at-stop" ELSE "none"
    /\ lastOp' = Op("stop", "")
    /\ UNCHANGED cycle
    /\ UNCHANGED << tradeVars, securityVars, sessionVars >>

\* stop(): this.isRunning = false
stop ==
    /\ isRunning' = FALSE
    /\ lastControl' = "stop"
    /\ stopMark' = IF cycle = "inflight" THEN "inflight-at-stop" ELSE "none"
    /\ lastOp' = Op("stop", "")
    /\ UNCHANGED cycle
    /\ UNCHANGED << tradeVars, securityVars, sessionVars >>

\* Control loop: a tick of the periodic task begins an evaluation cycle when
\* the flag is set and no cycle is in flight.
CycleBegin ==
    /\ isRunning
    /\ cycle = "idle"
    /\ cycle' = "inflight"
    /\ UNCHANGED << isRunning, lastControl, stopMark, lastOp >>
    /\ UNCHANGED << tradeVars, securityVars, sessionVars >>

\* Control loop: the cycle in flight finishes.
CycleEnd ==
    /\ cycle = "inflight"
    /\ cycle' = "idle"
    /\ stopMark' = IF stopMark = "inflight-at-stop" THEN "completed-after-stop"
                   ELSE stopMark
    /\ UNCHANGED << isRunning, lastControl, lastOp >>
    /\ UNCHANGED << tradeVars, securityVars, sessionVars >>

\* SecurityManager.getInstance(apiKey) is called (lines 27-32).
getInstance(apiKey) ==
    /\ securityApiKey' = getInstanceKey(securityApiKey, apiKey)
    /\ firstKey' = IF firstKey = NoInstance THEN apiKey ELSE firstKey
    /\ keysAsked' = keysAsked \cup {apiKey}
    /\ UNCHANGED constructed
    /\ UNCHANGED << tradeVars, controlVars, sessionVars >>

\* new SecureTradingBot(config), lines 131-140: getInstance(config.apiKey) at
\* line 138 and again at line 64, in the constructor of SecureWallet.
SecureTradingBot(apiKey) ==
    /\ securityApiKey' = getInstanceKey(getInstanceKey(securityApiKey, apiKey), apiKey)
    /\ firstKey' = IF firstKey = NoInstance THEN apiKey ELSE firstKey
    /\ keysAsked' = keysAsked \cup {apiKey}
    /\ constructed' = TRUE
    /\ UNCHANGED << tradeVars, controlVars, sessionVars >>

\* Section 4.6, withdraw(destinationAddress): NoFunds on an empty balance, else
\* the balance is read and zeroed in one step and a transfer of it begins.
withdraw ==
    /\ IF NoFunds(accumulatedProfit)
       THEN /\ lastOp' = Op("withdraw", "NoFunds")
            /\ UNCHANGED << accumulatedProfit, transfers >>
       ELSE /\ Len(transfers) < MaxTransfers
            /\ lastOp' = Op("withdraw", "initiated")
            /\ accumulatedProfit' = 0
            /\ transfers' = Append(transfers, accumulatedProfit)
    /\ UNCHANGED << isRunning, cycle, lastControl, stopMark >>
    /\ UNCHANGED << tradeVars, securityVars >>

\* Section 3: the Trade Executor credits the profit of a successful trade.
CreditProfit ==
    /\ accumulatedProfit + InTransfer(transfers) < MaxProfit
    /\ accumulatedProfit' = accumulatedProfit + 1
    /\ UNCHANGED transfers
    /\ UNCHANGED << tradeVars, controlVars, securityVars >>

\* Section 4.6: the external transfer ends; a failed transfer is re-credited.
TransferDone ==
    /\ transfers # << >>
    /\ \E ok \in BOOLEAN :
         accumulatedProfit' = IF ok THEN accumulatedProfit
                              ELSE accumulatedProfit + Head(transfers)
    /\ transfers' = Tail(transfers)
    /\ UNCHANGED << tradeVars, controlVars, securityVars >>

\* The trade pipeline: every request shape, every quote.
Next ==
    \/ \E r \in Requests : ExecuteTrade(r, MaxCalls, MaxInFlight)
    \/ \E i \in 1..MaxCalls : Resume(i, Quotes, Transactions)
    \/ Tick(MaxTime)

Spec == Init /\ [][Next]_vars

\* The rate limiter under load: authenticated requests of one source, the
\* price stubs answering 0 as in the source.
NextRate ==
    \/ \E r \in RateRequests : ExecuteTrade(r, MaxRateCalls, MaxInFlight)
    \/ \E i \in 1..MaxRateCalls : Resume(i, StubQuotes, Transactions)
    \/ Tick(MaxRateTime)

SpecRate == Init /\ [][NextRate]_vars

\* The rate limit reached: one source, one request per validation step, no
\* key expiring.
NextLimit ==
    \/ \E r \in LimitRequests : ExecuteTrade(r, MaxLimitCalls, MaxLimitInFlight)
    \/ \E i \in 1..MaxLimitCalls : Resume(i, LimitQuotes, Transactions)

SpecLimit == Init /\ [][NextLimit]_vars

\* start(), stop() and the control loop, next to direct trade requests.
NextControl ==
    \/ start
    \/ stop
    \/ CycleBegin
    \/ CycleEnd
    \/ \E r \in ControlRequests : ExecuteTrade(r, MaxControlCalls, MaxInFlight)
    \/ \E i \in 1..MaxControlCalls : Resume(i, StubQuotes, Transactions)
    \/ Tick(MaxTime)

SpecControl == Init /\ [][NextControl]_vars

\* executeTrade from line 172 on.  The transaction of line 163 never gets
\* there; next to it SpecSubmit lets executeTrade build a transaction that
\* carries an instruction.
NextSubmit ==
    \/ \E r \in RateRequests : ExecuteTrade(r, MaxSubmitCalls, MaxInFlight)
    \/ \E i \in 1..MaxSubmitCalls : Resume(i, SubmitQuotes, BuiltTransactions)
    \/ Tick(MaxTime)

SpecSubmit == Init /\ [][NextSubmit]_vars

\* The process before any SecurityManager exists and any bot is constructed.
InitProcess ==
    /\ now = 0
    /\ counter = [ip \in IpKeys |-> 0]
    /\ counterExp = [ip \in IpKeys |-> NoExpiry]
    /\ txStore = {}
    /\ walletCalls = {}
    /\ chainSent = {}
    /\ calls = << >>
    /\ isRunning = FALSE
    /\ cycle = "idle"
    /\ lastControl = "none"
    /\ stopMark = "none"
    /\ lastOp = NoOp
    /\ securityApiKey = NoInstance
    /\ constructed = FALSE
    /\ firstKey = NoInstance
    /\ keysAsked = {}
    /\ accumulatedProfit = 0
    /\ transfers = << >>

\* The singleton: getInstance and the constructors called with either key,
\* in any order, next to trade requests.
NextSingleton ==
    \/ \E k \in ApiKeys : getInstance(k)
    \/ \E k \in ApiKeys : SecureTradingBot(k)
    \/ \E r \in SingletonRequests : ExecuteTrade(r, MaxSingletonCalls, MaxInFlight)
    \/ \E i \in 1..MaxSingletonCalls : Resume(i, StubQuotes, Transactions)
    \/ Tick(MaxTime)

SpecSingleton == InitProcess /\ [][NextSingleton]_vars

\* The session state: start(), stop(), the profit credited and withdrawn.
NextSession ==
    \/ start
    \/ stop
    \/ withdraw
    \/ CreditProfit
    \/ TransferDone

SpecSession == Init /\ [][NextSession]_vars

\* =================================================================== claims
Calls == 1..Len(calls)

Done(i) == calls[i].pc = "done"

\* The call was let through by validateRequest (line 151).
Authenticated(i) == ~(Done(i) /\ calls[i].result = "Invalid trade request")

\* The call has run the check of line 159 and was let through.
PassedRateLimit(i) ==
    /\ Authenticated(i)
    /\ calls[i].pc \notin {"incr", "expire"}
    /\ calls[i].result # "Rate limit exceeded"

\* The formula of the specification, section 4.3, as a fraction:
\* ((sell - buy - buy*feeRateRoundTrip - buy*maxSlippage) / buy) * 100,
\* the two rates in per-mille.
netProfitPercent(buy, sell, feePerMille, slipPerMille) ==
    [num |-> sell * 1000 - buy * 1000 - buy * feePerMille - buy * slipPerMille,
     den |-> buy * 10]

\* Fractions with positive denominators.
FracEq(a, b) == a.num * b.den = b.num * a.den
FracLt(a, b) == a.num * b.den < b.num * a.den

\* The request carries the secret and no null or empty field.
WellFormed(i) ==
    /\ calls[i].req.apiKey = Secret
    /\ \A f \in {"ipAddress", "tokenMint", "dex"} : calls[i].req[f] \notin {Null, Empty}

\* The request passes every validation step the specification names.
Acceptable(i) ==
    LET c == calls[i] IN
    /\ WellFormed(i)
    /\ c.count <= 5
    /\ c.req.tokenMint \in WHITELISTED_TOKENS
    /\ c.req.roi >= 5
    /\ c.quoted
    /\ c.buy > 0
    /\ ~FracLt(netProfitPercent(c.buy, c.sell, 6, 20), [num |-> 5, den |-> 1])

\* C1 (as claimed): of two finished executeTrade calls with the same request
\* fingerprint (same requester, same token, arrived less than the 300 s TTL
\* apart) that both pass validation, exactly one was submitted to the chain.
C1_ExactlyOneSubmitted ==
    \A i \in Calls : \A j \in Calls :
        ( /\ i < j
          /\ Done(i) /\ Done(j)
          /\ Acceptable(i) /\ Acceptable(j)
          /\ calls[i].req.apiKey = calls[j].req.apiKey
          /\ calls[i].req.ipAddress = calls[j].req.ipAddress
          /\ calls[i].req.tokenMint = calls[j].req.tokenMint
          /\ calls[j].arrived - calls[i].arrived < 300 )
        => Cardinality({i, j} \cap chainSent) = 1

\* C2 (as claimed): of the calls of one source that arrive within one window
\* of 60 seconds, at most 5 pass the rate-limit check.
C2_AtMostFivePerWindow ==
    \A i \in Calls :
        Cardinality({ j \in Calls :
            /\ PassedRateLimit(j)
            /\ calls[j].req.ipAddress = calls[i].req.ipAddress
            /\ calls[j].arrived >= calls[i].arrived
            /\ calls[j].arrived < calls[i].arrived + 60 }) <= 5

\* C3 (as claimed): every finished call whose tokenMint is not whitelisted ended
\* in the unapproved-token error, whatever its roi and the state of the counter.
C3_UnlistedAlwaysUnapproved ==
    \A i \in Calls :
        (Done(i) /\ calls[i].req.tokenMint \notin WHITELISTED_TOKENS)
        => calls[i].result = "Unapproved token"

\* C3 (amended): a call whose tokenMint is not whitelisted never reaches the
\* wallet; once finished it ended in the unapproved-token error when it was
\* authenticated and within the rate limit (count <= 5), whatever its roi, and
\* in the authentication or rate-limit error, which are checked first,
\* otherwise.
C3_UnlistedRejected ==
    \A i \in Calls :
        calls[i].req.tokenMint \notin WHITELISTED_TOKENS
        => /\ i \notin walletCalls
           /\ i \notin chainSent
           /\ calls[i].pc \in {"incr", "expire", "done"}
           /\ Done(i) =>
                calls[i].result =
                    IF calls[i].req.apiKey # Secret THEN "Invalid trade request"
                    ELSE IF calls[i].count > 5 THEN "Rate limit exceeded"
                    ELSE "Unapproved token"

\* C3 witness: unlisted-token calls with roi at and below the threshold both
\* ended in the unapproved-token error.
C3_Witness ==
    /\ \E i \in Calls : /\ Done(i)
                        /\ calls[i].req.tokenMint = Unlisted
                        /\ calls[i].req.roi = 5
                        /\ calls[i].result = "Unapproved token"
    /\ \E i \in Calls : /\ Done(i)
                        /\ calls[i].req.tokenMint = Unlisted
                        /\ calls[i].req.roi = 4
                        /\ calls[i].result = "Unapproved token"

\* The reason of the first validation step the call fails, in the order of the
\* pipeline, "none" when it fails none.
FirstFailedStep(c) ==
    IF c.req.apiKey # Secret \/ Null \in {c.req.ipAddress, c.req.tokenMint, c.req.dex}
    THEN "Invalid trade request"
    ELSE IF c.count > 5 THEN "Rate limit exceeded"
    ELSE IF c.req.tokenMint \notin WHITELISTED_TOKENS THEN "Unapproved token"
    ELSE IF c.req.roi < 5 THEN "Trade ROI below threshold"
    ELSE IF c.quoted /\ LessThan(c.profit, 5) THEN "Trade not profitable enough"
    ELSE "none"

\* C4: a finished call that fails a validation step (authentication, rate
\* limit, whitelist, claimed ROI, estimated profit) ended in the error naming
\* the first step it fails, and nothing touched the chain for it:
\* wallet.sendTransaction was not called and no tx: record exists.
C4_ValidationFailureNoChain ==
    \A i \in Calls :
        (Done(i) /\ FirstFailedStep(calls[i]) # "none")
        => /\ calls[i].result = FirstFailedStep(calls[i])
           /\ i \notin walletCalls
           /\ i \notin chainSent
           /\ calls[i].signs = 0
           /\ \A m \in txStore : m.sig # i

\* C4 witness: calls have failed at the rate limit and at three other steps.
C4_Witness ==
    LET reasons == {calls[i].result : i \in {k \in Calls : Done(k)}} IN
    /\ "Rate limit exceeded" \in reasons
    /\ Cardinality(reasons \cap {"Invalid trade request", "Unapproved token",
                                 "Trade ROI below threshold",
                                 "Trade not profitable enough"}) >= 3
    /\ walletCalls = {}

\* C5 (as claimed): a finished call that passes every validation step with
\* quotes giving a net profit of at least 5% called wallet.sendTransaction.
C5_ProfitableTradeSubmitted ==
    \A i \in Calls : (Done(i) /\ Acceptable(i)) => i \in walletCalls

\* C6 (as claimed): a finished call of a well-formed request that reached the
\* profitability step with a buy price <= 0 or a net profit below 5% ended
\* there, as not profitable.
C6_UnprofitableRejected ==
    \A i \in Calls :
        ( /\ Done(i)
          /\ WellFormed(i)
          /\ calls[i].quoted
          /\ \/ calls[i].buy <= 0
             \/ FracLt(netProfitPercent(calls[i].buy, calls[i].sell, 6, 20),
                       [num |-> 5, den |-> 1]) )
        => calls[i].result = "Trade not profitable enough"

\* C7 (as claimed): a call is let through by validateRequest if and only if
\* its apiKey is the configured secret and none of its fields is null or empty.
C7_ValidateIffKeyAndNoEmptyField ==
    \A i \in Calls :
        Authenticated(i) <=>
            /\ calls[i].req.apiKey = Secret
            /\ \A f \in {"apiKey", "ipAddress", "tokenMint", "dex"} :
                   calls[i].req[f] \notin {Null, Empty}

\* C8: for every buy price > 0 the estimate calculateProfit returned equals the
\* formula of the specification with feeRateRoundTrip = 0.006 and
\* maxSlippage = 0.02, and of two estimates for the same buy price the one for
\* the higher sell price is not the lower one.
C8_ProfitFormulaMonotonic ==
    \A i \in Calls :
        (calls[i].quoted /\ calls[i].buy > 0)
        => /\ FracEq(calls[i].profit,
                     netProfitPercent(calls[i].buy, calls[i].sell, 6, 20))
           /\ \A j \in Calls :
                 ( /\ calls[j].quoted
                   /\ calls[j].buy = calls[i].buy
                   /\ calls[j].sell >= calls[i].sell )
                 => ~FracLt(calls[j].profit, calls[i].profit)

\* C8 witness: two estimates for the same buy price > 0 and different sell
\* prices, one of them the 5.4% of the example (buy 100, sell 108).
C8_Witness ==
    \E i \in Calls : \E j \in Calls :
        /\ calls[i].quoted /\ calls[j].quoted
        /\ calls[i].buy = 100 /\ calls[j].buy = 100
        /\ calls[i].sell = 104 /\ calls[j].sell = 108
        /\ calls[j].profit.num * 10 = 54 * calls[j].profit.den

\* C9: a transaction with zero instructions is never handed to the wallet: it
\* is neither signed nor sent, and the call that built it and reached the
\* safety check ended in the unsafe-transaction error.
C9_EmptyTransactionNeverSent ==
    \A i \in Calls :
        calls[i].instr = 0
        => /\ i \notin walletCalls
           /\ i \notin chainSent
           /\ calls[i].signs = 0
           /\ (Done(i) /\ ~LessThan(calls[i].profit, 5))
                => calls[i].result = "Unsafe transaction"

\* C9 witness: a call with profitable quotes built an empty transaction and
\* ended in the unsafe-transaction error.
C9_Witness ==
    \E i \in Calls :
        /\ Done(i)
        /\ calls[i].instr = 0
        /\ calls[i].buy = 100 /\ calls[i].sell = 108
        /\ calls[i].result = "Unsafe transaction"

\* C10: a new evaluation cycle never begins while stop() is the last control
\* operation called (after stop() has set the flag to false and before the
\* next start()).
C10_NoCycleBeginsAfterStop ==
    [][(cycle = "idle" /\ cycle' = "inflight") => lastControl # "stop"]_vars

\* C10 witness: a cycle that was in flight when stop() was called has run to
\* completion, the flag being false.
C10_Witness ==
    /\ stopMark = "completed-after-stop"
    /\ lastControl = "stop"
    /\ ~isRunning
    /\ cycle = "idle"

\* A step in which the control operation of this name was called.
OpStep(name) == lastOp'.seq # lastOp.seq /\ lastOp'.name = name

\* C11: a start() called while the bot is running leaves the flag set and
\* changes nothing else: no cycle of the loop begins or ends with it, and the
\* counters, the calls, the Redis records, the singleton and the session
\* balance stay as they were; start(); start() ends in the state of one start().
C11_StartIdempotent ==
    [][ (OpStep("start") /\ isRunning)
        => ( /\ isRunning'
             /\ UNCHANGED << cycle, tradeVars, securityVars, sessionVars >> ) ]_vars

\* start() was called while the bot was running.
C11_Witness == lastOp.name = "start" /\ lastOp.wasRunning /\ isRunning

\* C12: a withdraw called with a balance of zero answers NoFunds and leaves
\* the running flag, the balance and the transfers as they were.
C12_WithdrawOnZeroBalance ==
    [][ (OpStep("withdraw") /\ accumulatedProfit = 0)
        => ( /\ lastOp'.result = "NoFunds"
             /\ UNCHANGED << isRunning, accumulatedProfit, transfers >> ) ]_vars

\* withdraw was called on a zero balance, after an earlier withdrawal had
\* emptied it.
C12_Witness ==
    /\ lastOp.name = "withdraw"
    /\ lastOp.balance = 0
    /\ lastOp.result = "NoFunds"
    /\ accumulatedProfit = 0
    /\ transfers # << >>

C15_SignedExactlyOnce ==
    \A i \in chainSent : calls[i].signs = 1

\* C16 (as claimed): the counter of a source is cleared only after 60 seconds
\* without an authenticated request of it: an authenticated call that arrives
\* less than 60 seconds after the one before it, of the same source, is
\* counted one higher than that one.
C16_ClearedOnlyAfterQuietWindow ==
    \A i \in Calls : \A j \in Calls :
        ( /\ j = i + 1
          /\ calls[i].count > 0 /\ calls[j].count > 0
          /\ calls[i].req.ipAddress = calls[j].req.ipAddress
          /\ calls[j].arrived - calls[i].arrived < RATE_WINDOW_SECONDS )
        => calls[j].count = calls[i].count + 1

\* The counter and the TTL of every source but this one stay as they are.
OthersUnchanged(ip) ==
    \A other \in IpKeys \ {ip} :
        counter'[other] = counter[other] /\ counterExp'[other] = counterExp[other]

\* C17: a step of an executeTrade call changes the counter and the TTL of no
\* source but the call's own ipAddress, and a call whose apiKey is not the
\* secret of the singleton changes no counter at all.
C17_OnlyOwnCounter ==
    [][ /\ Len(calls') > Len(calls)
           => LET c == calls'[Len(calls')] IN
              /\ OthersUnchanged(c.req.ipAddress)
              /\ c.req.apiKey # securityApiKey => UNCHANGED << counter, counterExp >>
        /\ \A i \in Calls :
              calls'[i] # calls[i] => OthersUnchanged(calls[i].req.ipAddress) ]_vars

\* A call with a wrong key of one source left that source's counter at zero
\* and an authenticated call of another source counted on its own key.
C17_Witness ==
    \E i \in Calls : \E j \in Calls :
        /\ calls[i].req.apiKey # securityApiKey /\ calls[i].req.ipAddress = Ip1
        /\ calls[j].req.apiKey = securityApiKey /\ calls[j].req.ipAddress = Ip2
        /\ Done(i) /\ Done(j)
        /\ calls[i].result = "Invalid trade request"
        /\ counter[Ip1] = 0 /\ counter[Ip2] = 1

\* C18: the secret of the singleton is the apiKey of the first getInstance
\* call, whatever keys later calls and constructors pass, and validateRequest
\* turns away exactly the requests whose apiKey is not that first key.
C18_SecretIsFirstKey ==
    /\ securityApiKey = firstKey
    /\ \A i \in Calls :
          (calls[i].result = "Invalid trade request") <=> (calls[i].req.apiKey # firstKey)

\* getInstance has been called with two keys, the bot was constructed with
\* the second of them, and a request under the first was let through.
C18_Witness ==
    /\ keysAsked = ApiKeys
    /\ constructed
    /\ firstKey = WrongKey
    /\ securityApiKey = WrongKey
    /\ \E i \in Calls :
          /\ calls[i].req.apiKey = WrongKey
          /\ Done(i)
          /\ calls[i].result # "Invalid trade request"

\* Two calls with the same request and quotes, both within the rate limit or
\* both over it.
SameInputs(i, j) ==
    /\ calls[i].req = calls[j].req
    /\ calls[i].quoted = calls[j].quoted
    /\ calls[i].buy = calls[j].buy /\ calls[i].sell = calls[j].sell
    /\ RateLimited(calls[i].count) = RateLimited(calls[j].count)

\* C19: start() and stop() change the running flag and nothing of the trade
\* pipeline (counters, TTLs, calls, records), and two finished executeTrade
\* calls with the same inputs end in the same result whether the bot was
\* running or stopped when they were made.
C19_ControlAndTradesIndependent ==
    /\ [][ (OpStep("start") \/ OpStep("stop"))
           => UNCHANGED << tradeVars, securityVars, sessionVars >> ]_vars
    /\ [](\A i \in Calls : \A j \in Calls :
            (Done(i) /\ Done(j) /\ SameInputs(i, j))
            => calls[i].result = calls[j].result)

\* The same valid request made once while running and once after stop(), with
\* the same result; stop() did not block the second.
C19_Witness ==
    \E i \in Calls : \E j \in Calls :
        /\ calls[i].running /\ ~calls[j].running
        /\ calls[i].req = ValidRequest
        /\ Done(i) /\ Done(j) /\ SameInputs(i, j)
        /\ calls[i].result = calls[j].result
        /\ lastOp.name = "stop"

====
